---- MODULE Spec2Model ----
(***************************************************************************)
(* A model of Scrapling's fetch-dispatch layer:                            *)
(*   scrapling/engines/toolbelt/custom.py  (Response, BaseFetcher,         *)
(*       StatusText, check_if_engine_usable, check_type_validity)          *)
(*   scrapling/fetchers.py  (Fetcher, StealthyFetcher, PlayWrightFetcher,  *)
(*       CustomFetcher)                                                    *)
(*                                                                         *)
(* Python values are records [type, repr]; truthiness and isinstance are   *)
(* computed from them as Python computes them.                             *)
(***************************************************************************)
EXTENDS Integers, Sequences, FiniteSets, TLC

VARIABLES
    adaptor_arguments,  \* BaseFetcher.adaptor_arguments of the fetcher instance
    logged,             \* the log records emitted by the last operation
    call,               \* the last operation: its arguments, events and outcome
    cache,              \* the lru_cache of StatusText.get, most recent first
    lookups,            \* the StatusText.get calls made so far, in order
    input,              \* the arguments a single-call specification starts from
    constructed,        \* adaptor_arguments as BaseFetcher.__init__ left it
    threads             \* the concurrent StatusText.get callers, each at its step

vars == <<adaptor_arguments, logged, call, cache, lookups, input, constructed,
          threads>>

----------------------------------------------------------------------------
(* Python values *)

PyVal(t, r) == [type |-> t, repr |-> r]

PyNone == PyVal("NoneType", "None")
PyTrue == PyVal("bool", "True")
PyFalse == PyVal("bool", "False")

\* The values the operations are called with: every type twice, once falsy.
PyValues ==
    { PyNone,
      PyVal("int", "0"), PyVal("int", "7"),
      PyVal("str", ""), PyVal("str", "example.com"),
      PyFalse, PyTrue,
      PyVal("list", "[]"), PyVal("list", "[1]") }

PyTypes == {"NoneType", "int", "str", "bool", "list"}

\* bool(v): None, 0, "", False and [] are falsy.
Truthy(v) ==
    v \notin { PyNone, PyVal("int", "0"), PyVal("str", ""), PyFalse,
               PyVal("list", "[]") }

\* isinstance(v, t): bool is a subclass of int.
IsInstance(v, t) ==
    \/ v.type = t
    \/ v.type = "bool" /\ t = "int"

\* A log record of the logging module.
LogRecord(level, msg) == [level |-> level, msg |-> msg]

\* What a function call did: returned a value or raised.
Returned(v, logs) ==
    [outcome |-> "returned", value |-> v, error |-> "", logs |-> logs]
Raised(e, logs) ==
    [outcome |-> "raised", value |-> PyNone, error |-> e, logs |-> logs]

NoCall ==
    [op |-> "none", args |-> <<>>, trace |-> <<>>, outcome |-> "none",
     value |-> PyNone, error |-> ""]

NoInput == [op |-> "none"]

----------------------------------------------------------------------------
(* check_type_validity *)

\* The longest valid_types list the checks pass.
MaxTypes == 2

\* valid_types: None (given = FALSE) or a list of types.
ValidTypesInputs ==
    { [given |-> FALSE, types |-> <<>>] } \cup
    { [given |-> TRUE, types |-> s] :
        s \in UNION { [1..n -> PyTypes] : n \in 0..MaxTypes } }

ParamNames == { PyNone, PyVal("str", "timeout") }

\* get_variable_name(var): the first name bound to var in the module's globals,
\* else in the function's own locals, where the parameter var always is.
get_variable_name(var) == PyVal("str", "var")

\* valid_types or []
OrEmptyList(valid_types) ==
    IF valid_types.given /\ valid_types.types # <<>> THEN valid_types.types
    ELSE <<>>

\* check_type_validity returning the variable it rejected instead of the default.
check_type_validity_ReturnsVariable(variable, valid_types, default_value, critical, param_name) ==
    LET types == OrEmptyList(valid_types)
        rejected == IF critical THEN Raised("TypeError", <<>>)
                    ELSE Returned(variable, <<>>)
    IN  IF variable = PyNone
        THEN IF \E i \in 1..Len(types) : types[i] = "NoneType"
             THEN Returned(variable, <<>>) ELSE rejected
        ELSE IF types = <<>> THEN Returned(variable, <<>>)
        ELSE IF ~ \E i \in 1..Len(types) : IsInstance(variable, types[i])
        THEN rejected
        ELSE Returned(variable, <<>>)

\* check_type_validity whose None branch never looks at critical.
check_type_validity_NoneNeverCritical(variable, valid_types, default_value, critical, param_name) ==
    LET types == OrEmptyList(valid_types)
    IN  IF variable = PyNone
        THEN IF \E i \in 1..Len(types) : types[i] = "NoneType"
             THEN Returned(variable, <<>>)
             ELSE Returned(default_value, <<>>)
        ELSE IF types = <<>> THEN Returned(variable, <<>>)
        ELSE IF ~ \E i \in 1..Len(types) : IsInstance(variable, types[i])
        THEN IF critical THEN Raised("TypeError", <<>>)
             ELSE Returned(default_value, <<>>)
        ELSE Returned(variable, <<>>)

\* check_type_validity that lets everything pass when no types are given
\* before it looks at None.
check_type_validity_EmptyListFirst(variable, valid_types, default_value, critical, param_name) ==
    LET types == OrEmptyList(valid_types)
    IN  IF types = <<>> THEN Returned(variable, <<>>)
        ELSE IF variable = PyNone
        THEN IF \E i \in 1..Len(types) : types[i] = "NoneType"
             THEN Returned(variable, <<>>)
             ELSE IF critical THEN Raised("TypeError", <<>>)
                  ELSE Returned(default_value, <<LogRecord("ERROR", "None")>>)
        ELSE IF ~ \E i \in 1..Len(types) : IsInstance(variable, types[i])
        THEN IF critical THEN Raised("TypeError", <<>>)
             ELSE Returned(default_value, <<LogRecord("ERROR", "type")>>)
        ELSE Returned(variable, <<>>)

check_type_validity(variable, valid_types, default_value, critical, param_name) ==
    LET var_name == IF Truthy(param_name) THEN param_name
                    ELSE IF Truthy(get_variable_name(variable))
                         THEN get_variable_name(variable)
                         ELSE PyVal("str", "Unknown")
        types == OrEmptyList(valid_types)
        noneMsg == [text |-> "cannot be None", name |-> var_name.repr,
                    types |-> <<>>]
        typeMsg == [text |-> "must be of type", name |-> var_name.repr,
                    types |-> types]
    IN  IF variable = PyNone
        THEN IF \E i \in 1..Len(types) : types[i] = "NoneType"
             THEN Returned(variable, <<>>)
             ELSE IF critical THEN Raised("TypeError", <<>>)
                  ELSE Returned(default_value,
                                <<LogRecord("ERROR", noneMsg)>>)
        ELSE IF types = <<>>
        THEN Returned(variable, <<>>)
        ELSE IF ~ \E i \in 1..Len(types) : IsInstance(variable, types[i])
        THEN IF critical THEN Raised("TypeError", <<>>)
             ELSE Returned(default_value, <<LogRecord("ERROR", typeMsg)>>)
        ELSE Returned(variable, <<>>)

ValidateInputs ==
    [ op : {"check_type_validity"}, variable : PyValues,
      valid_types : ValidTypesInputs,
      default_value : { PyNone, PyVal("int", "7") },
      critical : BOOLEAN, param_name : ParamNames ]

CheckTypeValidity ==
    /\ call.op = "none"
    /\ input.op = "check_type_validity"
    /\ LET r == check_type_validity(input.variable, input.valid_types,
                                    input.default_value, input.critical,
                                    input.param_name)
       IN  /\ call' = [op |-> "check_type_validity", args |-> input,
                       trace |-> <<>>, outcome |-> r.outcome,
                       value |-> r.value, error |-> r.error]
           /\ logged' = r.logs
    /\ UNCHANGED <<adaptor_arguments, cache, lookups, input, constructed, threads>>

----------------------------------------------------------------------------
(* BaseFetcher.__init__ *)

\* dict(huge_tree=..., ..., debug=debug): a function from keys to values.
BaseArguments(huge_tree, keep_comments, auto_match, storage, storage_args, debug) ==
    [ k \in {"huge_tree", "keep_comments", "auto_match", "storage",
             "storage_args", "debug"} |->
        CASE k = "huge_tree" -> huge_tree
          [] k = "keep_comments" -> keep_comments
          [] k = "auto_match" -> auto_match
          [] k = "storage" -> storage
          [] k = "storage_args" -> storage_args
          [] OTHER -> debug ]

SQLiteStorageSystem == PyVal("type", "SQLiteStorageSystem")

\* dict.update({key: value})
DictUpdate(d, key, value) ==
    [ k \in DOMAIN d \cup {key} |-> IF k = key THEN value ELSE d[k] ]

BaseFetcherInit(huge_tree, keep_comments, auto_match, storage, storage_args, debug, automatch_domain) ==
    LET base == BaseArguments(huge_tree, keep_comments, auto_match, storage,
                              storage_args, debug)
    IN  IF Truthy(automatch_domain)
        THEN IF automatch_domain.type # "str"
             THEN [adaptor_arguments |-> base,
                   logs |-> <<LogRecord("WARNING",
                       [text |-> "must be of string type",
                        name |-> "automatch_domain", types |-> <<>>])>>]
             ELSE [adaptor_arguments |->
                       DictUpdate(base, "automatch_domain", automatch_domain),
                   logs |-> <<>>]
        ELSE [adaptor_arguments |-> base, logs |-> <<>>]

DefaultFetcher ==
    BaseFetcherInit(PyTrue, PyFalse, PyTrue, SQLiteStorageSystem, PyNone,
                    PyFalse, PyNone)

NewFetcher ==
    \E debug \in {PyFalse, PyTrue}, automatch_domain \in PyValues :
        LET f == BaseFetcherInit(PyTrue, PyFalse, PyTrue, SQLiteStorageSystem,
                                 PyNone, debug, automatch_domain)
        IN  /\ adaptor_arguments' = f.adaptor_arguments
            /\ logged' = f.logs
            /\ call' = [op |-> "BaseFetcher.__init__",
                        args |-> [debug |-> debug,
                                  automatch_domain |-> automatch_domain],
                        trace |-> <<>>, outcome |-> "returned",
                        value |-> PyNone, error |-> ""]
            /\ constructed' = f.adaptor_arguments
            /\ UNCHANGED <<cache, lookups, input, threads>>

----------------------------------------------------------------------------
(* StatusText *)

phrases ==
    100 :> "Continue" @@
    101 :> "Switching Protocols" @@
    102 :> "Processing" @@
    103 :> "Early Hints" @@
    200 :> "OK" @@
    201 :> "Created" @@
    202 :> "Accepted" @@
    203 :> "Non-Authoritative Information" @@
    204 :> "No Content" @@
    205 :> "Reset Content" @@
    206 :> "Partial Content" @@
    207 :> "Multi-Status" @@
    208 :> "Already Reported" @@
    226 :> "IM Used" @@
    300 :> "Multiple Choices" @@
    301 :> "Moved Permanently" @@
    302 :> "Found" @@
    303 :> "See Other" @@
    304 :> "Not Modified" @@
    305 :> "Use Proxy" @@
    307 :> "Temporary Redirect" @@
    308 :> "Permanent Redirect" @@
    400 :> "Bad Request" @@
    401 :> "Unauthorized" @@
    402 :> "Payment Required" @@
    403 :> "Forbidden" @@
    404 :> "Not Found" @@
    405 :> "Method Not Allowed" @@
    406 :> "Not Acceptable" @@
    407 :> "Proxy Authentication Required" @@
    408 :> "Request Timeout" @@
    409 :> "Conflict" @@
    410 :> "Gone" @@
    411 :> "Length Required" @@
    412 :> "Precondition Failed" @@
    413 :> "Payload Too Large" @@
    414 :> "URI Too Long" @@
    415 :> "Unsupported Media Type" @@
    416 :> "Range Not Satisfiable" @@
    417 :> "Expectation Failed" @@
    418 :> "I'm a teapot" @@
    421 :> "Misdirected Request" @@
    422 :> "Unprocessable Entity" @@
    423 :> "Locked" @@
    424 :> "Failed Dependency" @@
    425 :> "Too Early" @@
    426 :> "Upgrade Required" @@
    428 :> "Precondition Required" @@
    429 :> "Too Many Requests" @@
    431 :> "Request Header Fields Too Large" @@
    451 :> "Unavailable For Legal Reasons" @@
    500 :> "Internal Server Error" @@
    501 :> "Not Implemented" @@
    502 :> "Bad Gateway" @@
    503 :> "Service Unavailable" @@
    504 :> "Gateway Timeout" @@
    505 :> "HTTP Version Not Supported" @@
    506 :> "Variant Also Negotiates" @@
    507 :> "Insufficient Storage" @@
    508 :> "Loop Detected" @@
    510 :> "Not Extended" @@
    511 :> "Network Authentication Required"

\* The lookup with another default for the codes outside the table.
PhraseOf_OtherDefault(status_code) ==
    IF status_code \in DOMAIN phrases THEN phrases[status_code]
    ELSE "Unknown"

\* cls._phrases.get(status_code, "Unknown Status Code")
PhraseOf(status_code) ==
    IF status_code \in DOMAIN phrases THEN phrases[status_code]
    ELSE "Unknown Status Code"

\* A cache that keeps one entry more.
maxsize_OneMore == 128 + 1

\* @cache(maxsize=128)
maxsize == 128

\* The position of key in the cache, 0 when it holds no entry for it.
CacheIndex(c, key) ==
    IF \E i \in 1..Len(c) : c[i].key = key
    THEN CHOOSE i \in 1..Len(c) : c[i].key = key
    ELSE 0

\* The cache without its i-th entry.
CacheWithout(c, i) == [ j \in 1..(Len(c) - 1) |-> IF j < i THEN c[j] ELSE c[j + 1] ]

\* A cache that does not key its entries by the argument: any entry is a hit.
StatusTextGet_AnyHit(c, status_code) ==
    IF Len(c) > 0
    THEN [value |-> c[1].value, hit |-> TRUE, cache |-> c]
    ELSE [value |-> PhraseOf(status_code), hit |-> FALSE,
          cache |-> <<[key |-> status_code, value |-> PhraseOf(status_code)]>>]

\* StatusText.get under its cache decorator: a hit returns the stored result and
\* makes the entry the most recent; a miss calls the function, stores the result
\* as the most recent entry and drops the least recent one past maxsize.
StatusTextGet(c, status_code) ==
    LET i == CacheIndex(c, status_code)
    IN  IF i > 0
        THEN [value |-> c[i].value, hit |-> TRUE,
              cache |-> <<c[i]>> \o CacheWithout(c, i)]
        ELSE LET result == PhraseOf(status_code)
                 grown == <<[key |-> status_code, value |-> result]>> \o c
             IN  [value |-> result, hit |-> FALSE,
                  cache |-> IF Len(grown) > maxsize
                            THEN SubSeq(grown, 1, maxsize) ELSE grown]

\* The most StatusText.get calls of one run.
MaxLookups == 2

\* The codes looked up: every code of the table, and integers outside it.
StatusCodes == DOMAIN phrases \cup {-1, 0, 99, 209, 404000, 600}

StatusTextGetCall ==
    /\ Len(lookups) < MaxLookups
    /\ \E status_code \in StatusCodes :
        LET r == StatusTextGet(cache, status_code)
        IN  /\ cache' = r.cache
            /\ lookups' = Append(lookups, [status_code |-> status_code,
                                           value |-> r.value, hit |-> r.hit])
            /\ call' = [op |-> "StatusText.get",
                        args |-> [status_code |-> status_code],
                        trace |-> <<>>, outcome |-> "returned",
                        value |-> PyVal("str", r.value), error |-> ""]
    /\ logged' = <<>>
    /\ UNCHANGED <<adaptor_arguments, input, constructed, threads>>

----------------------------------------------------------------------------
(* StatusText.get called from several threads *)

\* The threads of the host application that look phrases up.
Threads == {"t1", "t2"}

\* The most lookups one thread makes.
MaxThreadLookups == 2

\* No thread is in a lookup.
Idle ==
    [ t \in Threads |-> [pc |-> "idle", status_code |-> 0, value |-> "",
                         hit |-> FALSE, done |-> 0] ]

\* The cache after StatusText.get(100), ..., StatusText.get(99 + n) from empty,
\* n <= maxsize: one entry per code, the last looked up first.
WarmCache(n) ==
    [ i \in 1..n |-> [key |-> 100 + n - i, value |-> PhraseOf(100 + n - i)] ]

\* The caches the threads start on: one entry short of full, and full.
WarmSizes == {maxsize - 1, maxsize}

\* The codes the threads look up: the least and the most recent entry of the
\* warm caches, a code of the table the caches do not hold, and an unknown one.
ThreadCodes == {100, 226, 404, 600}

\* The cache wrapper's first step, under its lock: a hit returns the stored
\* result and makes the entry the most recent; a miss leaves the cache alone
\* and goes on to call the function outside the lock.
LookupProbe ==
    \E t \in Threads, status_code \in ThreadCodes :
        /\ threads[t].pc \in {"idle", "returned"}
        /\ threads[t].done < MaxThreadLookups
        /\ LET i == CacheIndex(cache, status_code)
           IN  IF i > 0
               THEN /\ cache' = <<cache[i]>> \o CacheWithout(cache, i)
                    /\ threads' = [threads EXCEPT ![t] =
                           [pc |-> "returned", status_code |-> status_code,
                            value |-> cache[i].value, hit |-> TRUE,
                            done |-> @.done + 1]]
               ELSE /\ cache' = cache
                    /\ threads' = [threads EXCEPT ![t] =
                           [pc |-> "computing", status_code |-> status_code,
                            value |-> "", hit |-> FALSE, done |-> @.done]]
        /\ UNCHANGED <<adaptor_arguments, logged, call, lookups, input, constructed>>

\* The body of StatusText.get, run by the thread that missed.
LookupCompute ==
    \E t \in Threads :
        /\ threads[t].pc = "computing"
        /\ threads' = [threads EXCEPT ![t].pc = "storing",
                                      ![t].value = PhraseOf(threads[t].status_code)]
        /\ UNCHANGED <<adaptor_arguments, logged, call, cache, lookups, input, constructed>>

\* The cache wrapper's last step, under its lock again: the result is stored
\* as the most recent entry unless another thread stored the key meanwhile,
\* and the least recent entry is dropped past maxsize.
LookupStore ==
    \E t \in Threads :
        /\ threads[t].pc = "storing"
        /\ LET key == threads[t].status_code
               grown == <<[key |-> key, value |-> threads[t].value]>> \o cache
           IN  cache' = IF CacheIndex(cache, key) > 0 THEN cache
                        ELSE IF Len(grown) > maxsize
                        THEN SubSeq(grown, 1, maxsize) ELSE grown
        /\ threads' = [threads EXCEPT ![t].pc = "returned",
                                      ![t].done = @ + 1]
        /\ UNCHANGED <<adaptor_arguments, logged, call, lookups, input, constructed>>

----------------------------------------------------------------------------
(* Response *)

\* dict.pop(key, default): the value, and the dict without the key.
DictPop(d, key, default) ==
    [value |-> IF key \in DOMAIN d THEN d[key] ELSE default,
     rest |-> [ k \in DOMAIN d \ {key} |-> d[k] ]]

\* b or a
PyOr_Swapped(a, b) == IF Truthy(b) THEN b ELSE a

\* a or b
PyOr(a, b) == IF Truthy(a) THEN a ELSE b

\* Adaptor.__init__ (scrapling.parser): the parsed document keeps the url, the
\* encoding and the parsing arguments it is given.
AdaptorInit(text, body, url, encoding, arguments) ==
    [url |-> url, text |-> text, body |-> body, encoding |-> encoding,
     arguments |-> arguments]

\* Response.__init__: kwargs is the call's own **adaptor_arguments dict.
ResponseInit(url, text, body, status, reason, cookies, headers, request_headers, encoding, kwargs) ==
    LET popped == DictPop(kwargs, "automatch_domain", PyNone)
        automatch_domain == popped.value
        adaptor == AdaptorInit(text, body, PyOr(automatch_domain, url),
                               encoding, popped.rest)
    IN  [response |->
            [class |-> "Response", status |-> status, reason |-> reason,
             cookies |-> cookies, headers |-> headers,
             request_headers |-> request_headers, url |-> adaptor.url,
             text |-> adaptor.text, body |-> adaptor.body,
             encoding |-> adaptor.encoding, arguments |-> adaptor.arguments],
         kwargs |-> popped.rest]

\* The caller's dict after Response(..., **d), had the constructor been given
\* the dict itself: the pop would have reached it.
KeywordUnpack_Shared(d, rest) == rest

\* The caller's dict after Response(..., **d): the signature collects the
\* keywords in a dict of the call's own, so d keeps what the constructor pops
\* (rest is that dict after the pop).
KeywordUnpack(d, rest) == d

IsResponse(v) == "class" \in DOMAIN v /\ v.class = "Response"

EmptyDict == PyVal("dict", "{}")

Urls == { PyVal("str", "http://sub.example.org/x"), PyVal("str", "http://b.org/") }

\* The automatch_domain entries a Response is constructed with: none, or a
\* value under the key.
Overrides ==
    { [present |-> FALSE, value |-> PyNone] } \cup
    { [present |-> TRUE, value |-> v] :
        v \in { PyNone, PyVal("str", ""), PyVal("str", "example.com") } }

ResponseInputs ==
    [ op : {"Response"}, url : Urls, status : {200, 404},
      reason : { PyNone, PyVal("str", "OK") },
      encoding : { PyVal("str", "utf-8"), PyVal("str", "latin-1") },
      debug : { PyFalse, PyTrue }, override : Overrides ]

\* The keyword arguments of a Response(...) call.
ResponseKwargs(debug, override) ==
    LET base == BaseArguments(PyTrue, PyFalse, PyTrue, SQLiteStorageSystem,
                              PyNone, debug)
    IN  IF override.present
        THEN DictUpdate(base, "automatch_domain", override.value)
        ELSE base

NewResponse ==
    /\ call.op = "none"
    /\ input.op = "Response"
    /\ LET r == ResponseInit(input.url, PyVal("str", "<html/>"),
                             PyVal("bytes", "<html/>"), input.status,
                             input.reason, EmptyDict, EmptyDict, EmptyDict,
                             input.encoding,
                             ResponseKwargs(input.debug, input.override))
       IN  call' = [op |-> "Response", args |-> input, trace |-> <<>>,
                    outcome |-> "returned", value |-> r.response,
                    error |-> ""]
    /\ logged' = <<>>
    /\ UNCHANGED <<adaptor_arguments, cache, lookups, input, constructed, threads>>

----------------------------------------------------------------------------
(* check_if_engine_usable *)

\* The most parameters an engine's fetch declares.
MaxParams == 3

\* A candidate engine: the engine class or an instance of it; its fetch member
\* (none, a plain attribute, a method or a static method), the parameters the
\* def of fetch declares (self included for a method), and what fetch does once
\* it runs: builds a Response, returns the backend's own value, or raises.
Engines ==
    [ kind : {"class", "instance"}, member : {"absent", "attribute"},
      declared : {0}, behaviour : {"response"} ] \cup
    [ kind : {"class", "instance"}, member : {"method", "staticmethod"},
      declared : 0..MaxParams, behaviour : {"response", "raw", "raise"} ]

\* hasattr(engine, 'fetch')
HasFetch(engine) == engine.member # "absent"

\* callable(getattr(engine, "fetch"))
FetchCallable(engine) == engine.member \in {"method", "staticmethod"}

\* The parameters left to the caller once fetch is looked up on obj: a method
\* looked up on an instance is bound and has lost its first parameter (-1: it
\* declares none to lose); looked up on the class it is the plain function.
FetchParameters(obj) ==
    IF obj.member = "method" /\ obj.kind = "instance"
    THEN obj.declared - 1
    ELSE obj.declared

\* len(inspect.signature(fetch_function).parameters); inspect.signature raises
\* ValueError for a bound method that declares no parameter.
SignatureLength(engine) == FetchParameters(engine)

\* The check with >= 0 for > 0: a fetch without parameters passes.
check_if_engine_usable_AcceptsZero(engine) ==
    IF HasFetch(engine)
    THEN IF FetchCallable(engine)
         THEN IF SignatureLength(engine) < 0
              THEN Raised("ValueError: invalid method signature", <<>>)
              ELSE Returned(engine, <<>>)
         ELSE Raised("TypeError: fetch is not callable", <<>>)
    ELSE Raised("TypeError: no fetch method", <<>>)

check_if_engine_usable(engine) ==
    IF HasFetch(engine)
    THEN IF FetchCallable(engine)
         THEN IF SignatureLength(engine) < 0
              THEN Raised("ValueError: invalid method signature", <<>>)
              ELSE IF SignatureLength(engine) > 0
                   THEN Returned(engine, <<>>)
                   ELSE Raised("TypeError: fetch must take the url as first argument", <<>>)
         ELSE Raised("TypeError: fetch is not callable", <<>>)
    ELSE Raised("TypeError: no fetch method", <<>>)

EngineInputs == [ op : {"check_if_engine_usable"}, engine : Engines ]

CheckIfEngineUsable ==
    /\ call.op = "none"
    /\ input.op = "check_if_engine_usable"
    /\ LET r == check_if_engine_usable(input.engine)
       IN  call' = [op |-> "check_if_engine_usable", args |-> input,
                    trace |-> <<>>, outcome |-> r.outcome, value |-> r.value,
                    error |-> r.error]
    /\ logged' = <<>>
    /\ UNCHANGED <<adaptor_arguments, cache, lookups, input, constructed, threads>>

----------------------------------------------------------------------------
(* The engines *)

\* What the transport or the browser does with one request: fails, or answers
\* with a status and a reason phrase, which may be missing.
BackendOutcomes ==
    { [raises |-> TRUE, status |-> 0, reason |-> PyNone] } \cup
    [ raises : {FALSE}, status : {200, 404, 599},
      reason : { PyNone, PyVal("str", "Custom Reason") } ]

\* What a dispatch call did: the events in order, the outcome, the cache, the
\* fetcher's adaptor_arguments after it (the engine holds the same dict, not a
\* copy) and the adaptor_arguments the engine was constructed with, None when
\* no engine was constructed.
Dispatched(trace, r, c, arguments, handed) ==
    [trace |-> trace, outcome |-> r.outcome, value |-> r.value,
     error |-> r.error, cache |-> c, arguments |-> arguments,
     handed |-> handed]

\* A built-in engine's normalisation of the backend's answer into a Response:
\* the reason phrase is the backend's, or StatusText.get(status) without one.
EngineResponse(url, backend, arguments, c) ==
    LET lookup == StatusTextGet(c, backend.status)
        derive == backend.reason = PyNone
        reason == IF derive THEN PyVal("str", lookup.value) ELSE backend.reason
        init == ResponseInit(url, PyVal("str", "<html/>"),
                             PyVal("bytes", "<html/>"), backend.status, reason,
                             EmptyDict, EmptyDict, EmptyDict,
                             PyVal("str", "utf-8"), arguments)
    IN  [response |-> init.response,
         cache |-> IF derive THEN lookup.cache ELSE c,
         arguments |-> KeywordUnpack(arguments, init.kwargs)]

\* StaticEngine(...), CamoufoxEngine(...), PlaywrightEngine(...): the engine
\* keeps its options and the fetcher's adaptor_arguments.
BuiltinEngine(name, options, arguments) ==
    [engine |-> name, options |-> options, adaptor_arguments |-> arguments]

\* StaticEngine.get/post/put/delete and the browser engines' fetch: one request
\* to the backend, its failure passed on, its answer normalised.
BuiltinEngineFetch(engine, method, url, backend, c) ==
    IF backend.raises
    THEN Dispatched(<<"instantiate", "fetch">>, Raised("BackendError", <<>>),
                    c, engine.adaptor_arguments, engine.adaptor_arguments)
    ELSE LET r == EngineResponse(url, backend, engine.adaptor_arguments, c)
         IN  Dispatched(<<"instantiate", "fetch">>, Returned(r.response, <<>>),
                        r.cache, r.arguments, engine.adaptor_arguments)

\* browser_engine(adaptor_arguments=..., **kwargs) for a custom engine class.
EngineInstance(engine_class, arguments, kwargs) ==
    [kind |-> "instance", member |-> engine_class.member,
     declared |-> engine_class.declared, behaviour |-> engine_class.behaviour,
     adaptor_arguments |-> arguments, kwargs |-> kwargs]

\* The backend-native value an engine that does not normalise hands back.
RawValue == [class |-> "RawBackendResult", status |-> 200]

\* engine.fetch(url) on a custom engine instance: Python binds url to the one
\* parameter the bound fetch has left, and fails when there is none to take it
\* or one more that nothing is passed for.
EngineFetch(engine, url) ==
    IF FetchParameters(engine) < 1
    THEN Raised("TypeError: fetch takes fewer positional arguments than were given", <<>>)
    ELSE IF FetchParameters(engine) > 1
    THEN Raised("TypeError: fetch missing a required positional argument", <<>>)
    ELSE CASE engine.behaviour = "response" ->
                Returned(ResponseInit(url, PyVal("str", "<html/>"),
                             PyVal("bytes", "<html/>"), 200, PyVal("str", "OK"),
                             EmptyDict, EmptyDict, EmptyDict,
                             PyVal("str", "utf-8"),
                             engine.adaptor_arguments).response, <<>>)
           [] engine.behaviour = "raw" -> Returned(RawValue, <<>>)
           [] OTHER -> Raised("BackendError", <<>>)

----------------------------------------------------------------------------
(* Fetcher, StealthyFetcher, PlayWrightFetcher, CustomFetcher *)

PyInt10 == PyVal("int", "10")
PyInt30000 == PyVal("int", "30000")
do_nothing == PyVal("function", "do_nothing")
Attached == PyVal("str", "attached")

StaticEngine(follow_redirects, timeout, arguments) ==
    BuiltinEngine("StaticEngine",
        [follow_redirects |-> follow_redirects, timeout |-> timeout], arguments)

FetcherGet(self_arguments, url, follow_redirects, timeout, stealthy_headers, backend, c) ==
    BuiltinEngineFetch(StaticEngine(follow_redirects, timeout, self_arguments),
                       "get", url, backend, c)

FetcherPost(self_arguments, url, follow_redirects, timeout, stealthy_headers, backend, c) ==
    BuiltinEngineFetch(StaticEngine(follow_redirects, timeout, self_arguments),
                       "post", url, backend, c)

FetcherPut(self_arguments, url, follow_redirects, timeout, stealthy_headers, backend, c) ==
    BuiltinEngineFetch(StaticEngine(follow_redirects, timeout, self_arguments),
                       "put", url, backend, c)

FetcherDelete(self_arguments, url, follow_redirects, timeout, stealthy_headers, backend, c) ==
    BuiltinEngineFetch(StaticEngine(follow_redirects, timeout, self_arguments),
                       "delete", url, backend, c)

\* The defaults of StealthyFetcher.fetch.
StealthyOptions ==
    [proxy |-> PyNone, addons |-> PyNone, timeout |-> PyInt30000,
     headless |-> PyTrue, humanize |-> PyTrue, allow_webgl |-> PyFalse,
     page_action |-> do_nothing, network_idle |-> PyFalse,
     block_images |-> PyFalse, block_webrtc |-> PyFalse,
     os_randomize |-> PyNone, wait_selector |-> PyNone,
     google_search |-> PyTrue, extra_headers |-> PyNone,
     disable_resources |-> PyFalse, wait_selector_state |-> Attached]

\* StealthyFetcher.fetch that calls engine.fetch(url) again when it failed.
StealthyFetcherFetch_Retries(self_arguments, url, options, backend, c) ==
    LET engine == BuiltinEngine("CamoufoxEngine", options, self_arguments)
        first == BuiltinEngineFetch(engine, "fetch", url, backend, c)
    IN  IF first.outcome = "raised"
        THEN [first EXCEPT !.trace = first.trace \o <<"fetch">>]
        ELSE first

StealthyFetcherFetch(self_arguments, url, options, backend, c) ==
    LET engine == BuiltinEngine("CamoufoxEngine", options, self_arguments)
    IN  BuiltinEngineFetch(engine, "fetch", url, backend, c)

\* The defaults of PlayWrightFetcher.fetch.
PlayWrightOptions ==
    [proxy |-> PyNone, timeout |-> PyInt30000, stealth |-> PyFalse,
     cdp_url |-> PyNone, headless |-> PyTrue, useragent |-> PyNone,
     page_action |-> do_nothing, hide_canvas |-> PyTrue,
     network_idle |-> PyFalse, google_search |-> PyTrue,
     extra_headers |-> PyNone, wait_selector |-> PyNone,
     disable_webgl |-> PyFalse, nstbrowser_mode |-> PyFalse,
     nstbrowser_config |-> PyNone, disable_resources |-> PyNone,
     wait_selector_state |-> Attached]

PlayWrightFetcherFetch(self_arguments, url, options, backend, c) ==
    LET engine == BuiltinEngine("PlaywrightEngine", options, self_arguments)
    IN  BuiltinEngineFetch(engine, "fetch", url, backend, c)

\* CustomFetcher.fetch without the capability check.
CustomFetcherFetch_Unchecked(self_arguments, url, browser_engine, kwargs, c) ==
    LET engine == EngineInstance(browser_engine, self_arguments, kwargs)
    IN  Dispatched(<<"instantiate", "fetch">>, EngineFetch(engine, url), c,
                   self_arguments, engine.adaptor_arguments)

\* CustomFetcher.fetch: the callee check_if_engine_usable(browser_engine) is
\* evaluated first, then called to build the engine, then engine.fetch(url).
CustomFetcherFetch(self_arguments, url, browser_engine, kwargs, c) ==
    LET checked == check_if_engine_usable(browser_engine)
    IN  IF checked.outcome = "raised"
        THEN Dispatched(<<"check">>, checked, c, self_arguments, PyNone)
        ELSE IF checked.value.kind # "class"
        THEN Dispatched(<<"check">>,
                        Raised("TypeError: engine object is not callable", <<>>),
                        c, self_arguments, PyNone)
        ELSE LET engine == EngineInstance(checked.value, self_arguments, kwargs)
             IN  Dispatched(<<"check", "instantiate", "fetch">>,
                            EngineFetch(engine, url), c, self_arguments,
                            engine.adaptor_arguments)

\* The keyword configuration passed on to a custom engine's constructor.
KwargsInputs == { <<>>, [headless |-> PyTrue] }

\* The url the dispatch calls are made for.
Targets == { PyVal("str", "http://sub.example.org/x") }

\* The record of a dispatch call.
CallRecord(op, args, r) ==
    [op |-> op, args |-> args, trace |-> r.trace, outcome |-> r.outcome,
     value |-> r.value, error |-> r.error, handed |-> r.handed]

Get ==
    \E url \in Targets, backend \in BackendOutcomes :
        LET r == FetcherGet(adaptor_arguments, url, PyTrue, PyInt10, PyTrue, backend, cache)
        IN  /\ call' = CallRecord("Fetcher.get", [url |-> url, backend |-> backend], r)
            /\ cache' = r.cache
            /\ adaptor_arguments' = r.arguments
            /\ logged' = <<>>
            /\ UNCHANGED <<lookups, input, constructed, threads>>

Post ==
    \E url \in Targets, backend \in BackendOutcomes :
        LET r == FetcherPost(adaptor_arguments, url, PyTrue, PyInt10, PyTrue, backend, cache)
        IN  /\ call' = CallRecord("Fetcher.post", [url |-> url, backend |-> backend], r)
            /\ cache' = r.cache
            /\ adaptor_arguments' = r.arguments
            /\ logged' = <<>>
            /\ UNCHANGED <<lookups, input, constructed, threads>>

Put ==
    \E url \in Targets, backend \in BackendOutcomes :
        LET r == FetcherPut(adaptor_arguments, url, PyTrue, PyInt10, PyTrue, backend, cache)
        IN  /\ call' = CallRecord("Fetcher.put", [url |-> url, backend |-> backend], r)
            /\ cache' = r.cache
            /\ adaptor_arguments' = r.arguments
            /\ logged' = <<>>
            /\ UNCHANGED <<lookups, input, constructed, threads>>

Delete ==
    \E url \in Targets, backend \in BackendOutcomes :
        LET r == FetcherDelete(adaptor_arguments, url, PyTrue, PyInt10, PyTrue, backend, cache)
        IN  /\ call' = CallRecord("Fetcher.delete", [url |-> url, backend |-> backend], r)
            /\ cache' = r.cache
            /\ adaptor_arguments' = r.arguments
            /\ logged' = <<>>
            /\ UNCHANGED <<lookups, input, constructed, threads>>

StealthyFetch ==
    \E url \in Targets, backend \in BackendOutcomes :
        LET r == StealthyFetcherFetch(adaptor_arguments, url, StealthyOptions, backend, cache)
        IN  /\ call' = CallRecord("StealthyFetcher.fetch", [url |-> url, backend |-> backend], r)
            /\ cache' = r.cache
            /\ adaptor_arguments' = r.arguments
            /\ logged' = <<>>
            /\ UNCHANGED <<lookups, input, constructed, threads>>

PlayWrightFetch ==
    \E url \in Targets, backend \in BackendOutcomes :
        LET r == PlayWrightFetcherFetch(adaptor_arguments, url, PlayWrightOptions, backend, cache)
        IN  /\ call' = CallRecord("PlayWrightFetcher.fetch", [url |-> url, backend |-> backend], r)
            /\ cache' = r.cache
            /\ adaptor_arguments' = r.arguments
            /\ logged' = <<>>
            /\ UNCHANGED <<lookups, input, constructed, threads>>

CustomFetch ==
    \E url \in Targets, browser_engine \in Engines, kwargs \in KwargsInputs :
        LET r == CustomFetcherFetch(adaptor_arguments, url, browser_engine, kwargs, cache)
        IN  /\ call' = CallRecord("CustomFetcher.fetch", [url |-> url, browser_engine |-> browser_engine, kwargs |-> kwargs], r)
            /\ cache' = r.cache
            /\ adaptor_arguments' = r.arguments
            /\ logged' = <<>>
            /\ UNCHANGED <<lookups, input, constructed, threads>>

----------------------------------------------------------------------------
(* Specifications *)

Quiet ==
    /\ adaptor_arguments = DefaultFetcher.adaptor_arguments
    /\ logged = <<>>
    /\ call = NoCall
    /\ cache = <<>>
    /\ lookups = <<>>
    /\ constructed = DefaultFetcher.adaptor_arguments
    /\ threads = Idle

Init == Quiet /\ input = NoInput

InitValidate == Quiet /\ input \in ValidateInputs

NextValidate == CheckTypeValidity

SpecValidate == InitValidate /\ [][NextValidate]_vars

NextStatus == StatusTextGetCall

SpecStatus == Init /\ [][NextStatus]_vars

InitEngine == Quiet /\ input \in EngineInputs

NextEngine == CheckIfEngineUsable

SpecEngine == InitEngine /\ [][NextEngine]_vars

Next ==
    \/ NewFetcher
    \/ Get
    \/ Post
    \/ Put
    \/ Delete
    \/ StealthyFetch
    \/ PlayWrightFetch
    \/ CustomFetch

Spec == Init /\ [][Next]_vars

InitThreads ==
    /\ adaptor_arguments = DefaultFetcher.adaptor_arguments
    /\ logged = <<>>
    /\ call = NoCall
    /\ cache \in { WarmCache(n) : n \in WarmSizes }
    /\ lookups = <<>>
    /\ constructed = DefaultFetcher.adaptor_arguments
    /\ threads = Idle
    /\ input = NoInput

NextThreads ==
    \/ LookupProbe
    \/ LookupCompute
    \/ LookupStore

SpecThreads == InitThreads /\ [][NextThreads]_vars

InitResponse == Quiet /\ input \in ResponseInputs

NextResponse == NewResponse

SpecResponse == InitResponse /\ [][NextResponse]_vars

----------------------------------------------------------------------------
(* Properties *)

\* What the capability check is meant to let through: a callable fetch with a
\* parameter left for the caller, as seen on the candidate itself.
Usable(e) ==
    /\ e.member \in {"method", "staticmethod"}
    /\ FetchParameters(e) >= 1

\* C1: check_if_engine_usable rejects a candidate without a fetch member, then
\* one whose fetch is not callable, then one whose fetch has no parameter, each
\* with its own error, and accepts every other candidate, returning the very
\* candidate it was given.
C1_EngineCheckMatrix ==
    call.op = "check_if_engine_usable" =>
        LET e == call.args.engine
        IN  /\ e.member = "absent" =>
                /\ call.outcome = "raised"
                /\ call.error = "TypeError: no fetch method"
            /\ e.member = "attribute" =>
                /\ call.outcome = "raised"
                /\ call.error = "TypeError: fetch is not callable"
            /\ e.member \in {"method", "staticmethod"} /\ FetchParameters(e) = 0 =>
                /\ call.outcome = "raised"
                /\ call.error = "TypeError: fetch must take the url as first argument"
            /\ e.member \in {"method", "staticmethod"} /\ FetchParameters(e) < 0 =>
                call.outcome = "raised"
            /\ e.member \in {"method", "staticmethod"} /\ FetchParameters(e) >= 1 =>
                /\ call.outcome = "returned"
                /\ call.value = e

\* An engine class with fetch(self, url) was checked and came back as it was.
C1_Witness ==
    /\ call.op = "check_if_engine_usable"
    /\ call.args.engine.kind = "class"
    /\ call.args.engine.member = "method"
    /\ call.args.engine.declared = 2
    /\ call.outcome = "returned"
    /\ call.value = call.args.engine

\* C2: in every CustomFetcher.fetch call the capability check runs exactly
\* once and is the first thing that happens; when the check fails, the call
\* ends with the check's error and the engine is neither instantiated nor is
\* its fetch invoked.
C2_CheckOnceBeforeEngine ==
    call.op = "CustomFetcher.fetch" =>
        /\ Cardinality({ i \in 1..Len(call.trace) : call.trace[i] = "check" }) = 1
        /\ call.trace[1] = "check"
        /\ ~ Usable(call.args.browser_engine) =>
            /\ call.outcome = "raised"
            /\ call.error = check_if_engine_usable(call.args.browser_engine).error
            /\ call.trace = <<"check">>

\* A CustomFetcher.fetch call with an engine without fetch ended with the
\* check's error, after the check alone.
C2_Witness ==
    /\ call.op = "CustomFetcher.fetch"
    /\ call.args.browser_engine.member = "absent"
    /\ call.outcome = "raised"
    /\ call.error = "TypeError: no fetch method"
    /\ call.trace = <<"check">>

\* C3: for every engine CustomFetcher.fetch accepts and instantiates, the call
\* engine.fetch(url) does not fail for lack of a parameter to receive the url.
C3_AcceptedEngineTakesUrl ==
    call.op = "CustomFetcher.fetch" /\ call.trace = <<"check", "instantiate", "fetch">> =>
        call.error # "TypeError: fetch takes fewer positional arguments than were given"

DispatchOps ==
    { "Fetcher.get", "Fetcher.post", "Fetcher.put", "Fetcher.delete",
      "StealthyFetcher.fetch", "PlayWrightFetcher.fetch", "CustomFetcher.fetch" }

\* C4: every dispatch method that returns normally returns a Response, also
\* CustomFetcher.fetch, whatever the accepted engine's fetch returns.
C4_DispatchReturnsResponse ==
    call.op \in DispatchOps /\ call.outcome = "returned" => IsResponse(call.value)

\* Validation fails: the value is None and None is not allowed, or kinds are
\* given and the value is an instance of none of them.
ValidationFails(a) ==
    LET kinds == IF a.valid_types.given
                 THEN { a.valid_types.types[i] : i \in 1..Len(a.valid_types.types) }
                 ELSE {}
    IN  IF a.variable.type = "NoneType"
        THEN "NoneType" \notin kinds
        ELSE /\ kinds # {}
             /\ \A t \in kinds : ~ IsInstance(a.variable, t)

\* C5: check_type_validity with critical=False never raises, and whenever the
\* validation fails it returns exactly the default it was given.
C5_NonCriticalReturnsDefault ==
    call.op = "check_type_validity" /\ ~ call.args.critical =>
        /\ call.outcome = "returned"
        /\ ValidationFails(call.args) => call.value = call.args.default_value

\* A non-critical check of a value of the wrong type returned the default,
\* which is itself of a type that is not allowed.
C5_Witness ==
    /\ call.op = "check_type_validity"
    /\ ~ call.args.critical
    /\ call.args.variable = PyVal("str", "example.com")
    /\ call.args.valid_types.types = <<"list">>
    /\ call.args.default_value = PyVal("int", "7")
    /\ call.outcome = "returned"
    /\ call.value = PyVal("int", "7")

\* C6: check_type_validity with critical=True raises TypeError whenever the
\* validation fails, and returns the value itself whenever it passes.
C6_CriticalRaisesOrReturnsValue ==
    call.op = "check_type_validity" /\ call.args.critical =>
        IF ValidationFails(call.args)
        THEN call.outcome = "raised" /\ call.error = "TypeError"
        ELSE call.outcome = "returned" /\ call.value = call.args.variable

\* A critical check of None, with None not allowed, raised.
C6_Witness ==
    /\ call.op = "check_type_validity"
    /\ call.args.critical
    /\ call.args.variable = PyNone
    /\ call.args.valid_types.types = <<"int", "str">>
    /\ call.outcome = "raised"

BuiltinOps == DispatchOps \ {"CustomFetcher.fetch"}

\* C7: when the backend answers without a reason phrase, the Response carries
\* the backend's status and the phrase of the status table for it ("Not Found"
\* for 404, "Unknown Status Code" for a status outside the table).
C7_ReasonDerivedFromStatus ==
    ( /\ call.op \in BuiltinOps
      /\ call.outcome = "returned"
      /\ call.args.backend.reason = PyNone ) =>
        /\ call.value.status = call.args.backend.status
        /\ call.value.reason.type = "str"
        /\ call.value.status \in DOMAIN phrases =>
               call.value.reason.repr = phrases[call.value.status]
        /\ call.value.status \notin DOMAIN phrases =>
               call.value.reason.repr = "Unknown Status Code"
        /\ call.value.status = 404 => call.value.reason.repr = "Not Found"

\* A 404 without a reason came back as a Response with 404 and "Not Found",
\* with another status already in the cache.
C7_Witness ==
    /\ call.op = "Fetcher.get"
    /\ call.outcome = "returned"
    /\ call.args.backend.status = 404
    /\ call.args.backend.reason = PyNone
    /\ call.value.status = 404
    /\ call.value.reason = PyVal("str", "Not Found")
    /\ Len(cache) = 2

\* C8: a value for automatch_domain that is set but is not a string, falsy or
\* not, is rejected with a logged warning and never stored; the key
\* automatch_domain is in adaptor_arguments only when the value is a string.
C8_NonStringWarned ==
    call.op = "BaseFetcher.__init__" =>
        LET v == call.args.automatch_domain
        IN  /\ v # PyNone /\ v.type # "str" =>
                /\ \E i \in 1..Len(logged) : logged[i].level = "WARNING"
                /\ "automatch_domain" \notin DOMAIN adaptor_arguments
            /\ "automatch_domain" \in DOMAIN adaptor_arguments => v.type = "str"

\* C9 as stated: a Response constructed with a string override D in its
\* arguments has url D, and without an override the request's url.
C9_OverrideAlwaysReplaces ==
    call.op = "Response" =>
        /\ call.args.override.present /\ call.args.override.value.type = "str" =>
               call.value.url = call.args.override.value
        /\ ~ call.args.override.present => call.value.url = call.args.url

\* C9, amended: a Response constructed with a non-empty override D has url D;
\* without an override, or with an empty or None one, it has the request's url.
C9_NonEmptyOverrideReplaces ==
    call.op = "Response" =>
        IF call.args.override.present /\ Truthy(call.args.override.value)
        THEN call.value.url = call.args.override.value
        ELSE call.value.url = call.args.url

\* A Response for http://sub.example.org/x with the override example.com has
\* the url example.com.
C9_Witness ==
    /\ call.op = "Response"
    /\ call.args.url = PyVal("str", "http://sub.example.org/x")
    /\ call.args.override = [present |-> TRUE, value |-> PyVal("str", "example.com")]
    /\ call.value.url = PyVal("str", "example.com")

\* C10: StatusText.get returns the table's phrase for every code of the table
\* and "Unknown Status Code" for every other integer, and a repeated lookup of
\* a code returns what the first lookup of it returned.
C10_PhraseLookup ==
    \A i \in 1..Len(lookups) :
        /\ lookups[i].status_code \in DOMAIN phrases =>
               lookups[i].value = phrases[lookups[i].status_code]
        /\ lookups[i].status_code \notin DOMAIN phrases =>
               lookups[i].value = "Unknown Status Code"
        /\ lookups[i].status_code = 200 => lookups[i].value = "OK"
        /\ lookups[i].status_code = 511 =>
               lookups[i].value = "Network Authentication Required"
        /\ \A j \in 1..Len(lookups) :
               lookups[j].status_code = lookups[i].status_code =>
                   lookups[j].value = lookups[i].value

\* A code outside the table was looked up twice, the second time from the
\* cache, with the same answer.
C10_Witness ==
    /\ Len(lookups) = 2
    /\ lookups[1].status_code = 600
    /\ lookups[2].status_code = 600
    /\ ~ lookups[1].hit
    /\ lookups[2].hit
    /\ lookups[2].value = "Unknown Status Code"

\* The engine.fetch(url) invocations of the last call.
FetchCount ==
    Cardinality({ i \in 1..Len(call.trace) : call.trace[i] = "fetch" })

\* The backend of the last dispatch call failed: the transport or browser of
\* a built-in engine, or the fetch of a custom engine that took the url.
BackendFailed ==
    \/ call.op \in BuiltinOps /\ call.args.backend.raises
    \/ /\ call.op = "CustomFetcher.fetch"
       /\ call.trace = <<"check", "instantiate", "fetch">>
       /\ FetchParameters([call.args.browser_engine EXCEPT !.kind = "instance"]) = 1
       /\ call.args.browser_engine.behaviour = "raise"

\* C11: every dispatch call invokes the engine's fetch at most once, and
\* exactly once, as its last step and right after the engine was constructed,
\* when it returns normally; a call that fails before the fetch never invokes
\* it, and a failure of the backend ends the call with that failure after the
\* one invocation.
C11_FetchInvokedOnce ==
    call.op \in DispatchOps =>
        /\ FetchCount <= 1
        /\ \A i \in 1..Len(call.trace) :
               call.trace[i] = "fetch" =>
                   i = Len(call.trace) /\ i > 1 /\ call.trace[i - 1] = "instantiate"
        /\ call.outcome = "returned" => FetchCount = 1
        /\ FetchCount = 0 => call.outcome = "raised"
        /\ BackendFailed =>
               /\ call.outcome = "raised"
               /\ call.error = "BackendError"
               /\ FetchCount = 1

\* A StealthyFetcher.fetch call whose browser failed ended with that failure
\* after one invocation.
C11_Witness ==
    /\ call.op = "StealthyFetcher.fetch"
    /\ call.args.backend.raises
    /\ call.outcome = "raised"
    /\ call.error = "BackendError"
    /\ call.trace = <<"instantiate", "fetch">>

\* C12: after any sequence of dispatch calls, failed ones included, the
\* fetcher's adaptor_arguments holds exactly the keys and values the
\* constructor left, also after a Response was built that popped
\* automatch_domain from its keyword arguments; and the engine of every call
\* was constructed with exactly that dict.
C12_ArgumentsNeverChanged ==
    /\ adaptor_arguments = constructed
    /\ call.op \in DispatchOps /\ FetchCount > 0 => call.handed = constructed

\* A Fetcher.get call on a fetcher constructed with automatch_domain returned
\* a Response that took the override as its url, and the fetcher still holds
\* the key.
C12_Witness ==
    /\ call.op = "Fetcher.get"
    /\ call.outcome = "returned"
    /\ call.value.url = PyVal("str", "example.com")
    /\ "automatch_domain" \notin DOMAIN call.value.arguments
    /\ "automatch_domain" \in DOMAIN adaptor_arguments
    /\ adaptor_arguments["automatch_domain"] = PyVal("str", "example.com")

\* C13: whatever the threads look up and however their steps interleave, the
\* cache never holds more than 128 entries nor two entries for one code, every
\* entry holds the table's phrase for its code, and every finished lookup
\* returned the table's phrase for its code, "Unknown Status Code" for a code
\* outside the table, whether it was a hit or a miss.
C13_BoundedCacheRightPhrase ==
    /\ Len(cache) <= 128
    /\ \A i, j \in 1..Len(cache) : cache[i].key = cache[j].key => i = j
    /\ \A i \in 1..Len(cache) :
           cache[i].value = IF cache[i].key \in DOMAIN phrases
                            THEN phrases[cache[i].key]
                            ELSE "Unknown Status Code"
    /\ \A t \in Threads :
           threads[t].pc = "returned" =>
               threads[t].value = IF threads[t].status_code \in DOMAIN phrases
                                  THEN phrases[threads[t].status_code]
                                  ELSE "Unknown Status Code"

\* On a full cache one thread's miss dropped the entry of code 100, and the
\* other thread's lookup of 100 missed and still returned "Continue".
C13_Witness ==
    /\ Len(cache) = 128
    /\ threads["t1"].pc = "returned" /\ ~ threads["t1"].hit
    /\ threads["t1"].status_code = 404 /\ threads["t1"].value = "Not Found"
    /\ threads["t2"].pc = "returned" /\ ~ threads["t2"].hit
    /\ threads["t2"].status_code = 100 /\ threads["t2"].value = "Continue"

\* The types given to the last check_type_validity call.
GivenKinds(a) ==
    IF a.valid_types.given
    THEN { a.valid_types.types[i] : i \in 1..Len(a.valid_types.types) }
    ELSE {}

\* C14: check_type_validity looks at None first: None passes (is returned
\* with nothing logged) exactly when NoneType is among the given types, so
\* None with an empty or missing list is rejected, by a TypeError when
\* critical and by the default with an error logged otherwise; every value
\* other than None passes unchanged when the list is empty or missing.
C14_NoneBeforeEmptyList ==
    call.op = "check_type_validity" =>
        LET a == call.args
            passed == /\ call.outcome = "returned"
                      /\ call.value = a.variable
                      /\ logged = <<>>
        IN  /\ a.variable = PyNone =>
                   /\ passed <=> "NoneType" \in GivenKinds(a)
                   /\ "NoneType" \notin GivenKinds(a) =>
                          IF a.critical
                          THEN call.outcome = "raised" /\ call.error = "TypeError"
                          ELSE /\ call.outcome = "returned"
                               /\ call.value = a.default_value
                               /\ Len(logged) = 1
                               /\ logged[1].level = "ERROR"
            /\ a.variable # PyNone /\ GivenKinds(a) = {} => passed

\* None was checked without a list of types and without critical: the default
\* came back and the error was logged.
C14_Witness ==
    /\ call.op = "check_type_validity"
    /\ call.args.variable = PyNone
    /\ ~ call.args.valid_types.given
    /\ ~ call.args.critical
    /\ call.args.default_value = PyVal("int", "7")
    /\ call.outcome = "returned"
    /\ call.value = PyVal("int", "7")
    /\ Len(logged) = 1

====
